---------------------------- MODULE Spec2Model ----------------------------
(***************************************************************************)
(* Model of wasm-globe (src/src/lib.rs): start() acquires the canvas and   *)
(* the viewport, picks a detail tier, builds the camera matrix and three   *)
(* dot sets, and registers a frame closure with requestAnimationFrame.     *)
(* Every invocation of the closure clears the canvas, rotates and draws    *)
(* every dot set, advances t and registers itself again.                   *)
(*                                                                         *)
(* Numbers.  The program computes in f64.  The model computes in exact     *)
(* rationals <<n, d>> (d > 0, lowest terms), so rounding is not modelled.  *)
(* Angles are kept in units of a quarter turn (FRAC_PI_2 is the unit), and *)
(* sine and cosine are evaluated exactly where they are rational, that is  *)
(* at whole numbers of quarter turns; a rotation by any other angle is the *)
(* value Inexact, and so is everything computed from it.                   *)
(***************************************************************************)
EXTENDS Integers, Sequences, FiniteSets, TLC

(***************************************************************************)
(* Bounds of the model.                                                    *)
(***************************************************************************)
\* Ticks explored.  500 ticks of 0.002 bring t to 1, where every angle of
\* every set is a whole number of quarter turns; tick 501 draws at t = 1.
MaxTicks == 501
\* Ticks explored under fairness.
MaxFairTicks == 3
\* The tier function is explored on the grid {0, 100, ..., 100 * MaxGrid}^2.
MaxGrid == 20
\* Whole times and weights the rotation function is explored on.
MaxT == 2
MaxWeight == 3

(***************************************************************************)
(* Exact rationals.                                                        *)
(***************************************************************************)
Abs(n) == IF n < 0 THEN -n ELSE n

gcd[a \in Nat, b \in Nat] == IF b = 0 THEN a ELSE gcd[b, a % b]

GCD(a, b) == gcd[a, b]

\* The operators below bind their arguments once (x \in {a}), so that an
\* argument is evaluated once however often the body uses it.
Only(S) == CHOOSE e \in S : TRUE

Rat(n, d) ==
    Only({ <<((IF y < 0 THEN -1 ELSE 1) * x) \div g, Abs(y) \div g>> :
           x \in {n}, y \in {d}, g \in {GCD(Abs(n), Abs(d))} })

I(n) == <<n, 1>>

RAdd(a, b) == Only({Rat(x[1] * y[2] + y[1] * x[2], x[2] * y[2]) : x \in {a}, y \in {b}})
RSub(a, b) == Only({Rat(x[1] * y[2] - y[1] * x[2], x[2] * y[2]) : x \in {a}, y \in {b}})
RMul(a, b) == Only({Rat(x[1] * y[1], x[2] * y[2]) : x \in {a}, y \in {b}})
RDiv(a, b) == Only({Rat(x[1] * y[2], x[2] * y[1]) : x \in {a}, y \in {b}})
RNeg(a) == Only({<<-x[1], x[2]>> : x \in {a}})
RIsInt(a) == a[2] = 1
RIsZero(a) == a[1] = 0

\* The square root of a rational that is a perfect square (f64::sqrt on the
\* values the camera setup takes it of).
RSqrt(a) ==
    <<CHOOSE s \in 0..a[1] : s * s = a[1], CHOOSE s \in 0..a[2] : s * s = a[2]>>

(***************************************************************************)
(* nalgebra: vectors are tuples of rationals, matrices tuples of rows.     *)
(***************************************************************************)
Inexact == <<>>

Dot(u, v) ==
    Only({ LET partial[k \in 0..Len(x)] ==
                   IF k = 0 THEN I(0) ELSE RAdd(partial[k - 1], RMul(x[k], y[k]))
           IN  partial[Len(x)] : x \in {u}, y \in {v} })

VecAdd(u, v) == Only({[k \in 1..Len(x) |-> RAdd(x[k], y[k])] : x \in {u}, y \in {v}})
VecSub(u, v) == Only({[k \in 1..Len(x) |-> RSub(x[k], y[k])] : x \in {u}, y \in {v}})
VecNeg(u) == Only({[k \in 1..Len(x) |-> RNeg(x[k])] : x \in {u}})
VecScale(c, u) == Only({[k \in 1..Len(x) |-> RMul(d, x[k])] : d \in {c}, x \in {u}})

Cross(u, v) ==
    Only({ << RSub(RMul(x[2], y[3]), RMul(x[3], y[2])),
              RSub(RMul(x[3], y[1]), RMul(x[1], y[3])),
              RSub(RMul(x[1], y[2]), RMul(x[2], y[1])) >> : x \in {u}, y \in {v} })

Normalize(u) == Only({VecScale(RDiv(I(1), RSqrt(Dot(x, x))), x) : x \in {u}})

Col(m, c) == [r \in 1..Len(m) |-> m[r][c]]

MatMul(a, b) ==
    Only({ [r \in 1..Len(x) |-> [c \in 1..Len(y[1]) |-> Dot(x[r], Col(y, c))]] :
           x \in {a}, y \in {b} })

MatVec(m, v) == Only({[r \in 1..Len(x) |-> Dot(x[r], y)] : x \in {m}, y \in {v}})

Transpose(m) == Only({[c \in 1..Len(x[1]) |-> Col(x, c)] : x \in {m}})

Identity3 == << <<I(1), I(0), I(0)>>, <<I(0), I(1), I(0)>>, <<I(0), I(0), I(1)>> >>

Identity4 ==
    << <<I(1), I(0), I(0), I(0)>>, <<I(0), I(1), I(0), I(0)>>,
       <<I(0), I(0), I(1), I(0)>>, <<I(0), I(0), I(0), I(1)>> >>

\* Vector3::x(), Vector3::y(), Vector3::z() and the unit axes.
x_axis == <<I(1), I(0), I(0)>>
y_axis == <<I(0), I(1), I(0)>>
z_axis == <<I(0), I(0), I(1)>>

(***************************************************************************)
(* Angles in quarter turns.                                                *)
(***************************************************************************)
\* std::f64::consts::FRAC_PI_2, in quarter turns.
FRAC_PI_2 == I(1)

AngleExact(a) == RIsInt(a)

\* f64::cos and f64::sin at a whole number of quarter turns.
Cos(a) == <<I(1), I(0), I(-1), I(0)>>[(a[1] % 4) + 1]
Sin(a) == <<I(0), I(1), I(0), I(-1)>>[(a[1] % 4) + 1]

\* Rotation3::from_axis_angle(axis, angle): Rodrigues' formula.
Rodrigues(axis, c, s) ==
    LET k == RSub(I(1), c)
        ux == axis[1]
        uy == axis[2]
        uz == axis[3]
    IN << << RAdd(RMul(RMul(ux, ux), k), c),
             RSub(RMul(RMul(ux, uy), k), RMul(uz, s)),
             RAdd(RMul(RMul(ux, uz), k), RMul(uy, s)) >>,
          << RAdd(RMul(RMul(ux, uy), k), RMul(uz, s)),
             RAdd(RMul(RMul(uy, uy), k), c),
             RSub(RMul(RMul(uy, uz), k), RMul(ux, s)) >>,
          << RSub(RMul(RMul(ux, uz), k), RMul(uy, s)),
             RAdd(RMul(RMul(uy, uz), k), RMul(ux, s)),
             RAdd(RMul(RMul(uz, uz), k), c) >> >>

from_axis_angle(axis, angle) ==
    Only({ IF ~AngleExact(a) THEN Inexact ELSE Rodrigues(u, Cos(a), Sin(a)) :
           u \in {axis}, a \in {angle} })

\* Rotation3 * Rotation3.
RotMul(a, b) ==
    Only({IF x = Inexact \/ y = Inexact THEN Inexact ELSE MatMul(x, y) :
          x \in {a}, y \in {b}})

\* Rotation3 * Point3.
RotPoint(r, p) ==
    Only({IF x = Inexact \/ y = Inexact THEN Inexact ELSE MatVec(x, y) :
          x \in {r}, y \in {p}})

\* Matrix4::transform_point: the affine part applied to the point, divided
\* by the projective normalizer when that is not zero.
transform_point(m, p) ==
    Only({ IF y = Inexact THEN Inexact
           ELSE LET h == <<y[1], y[2], y[3], I(1)>>
                    n == Dot(x[4], h)
                    q == <<Dot(x[1], h), Dot(x[2], h), Dot(x[3], h)>>
                IN  IF RIsZero(n) THEN q ELSE VecScale(RDiv(I(1), n), q) :
           x \in {m}, y \in {p} })

\* Point3 + Vector3.
PointAdd(p, v) == Only({IF x = Inexact THEN Inexact ELSE VecAdd(x, v) : x \in {p}})

(***************************************************************************)
(* nalgebra geometry used by the camera setup of start().                  *)
(***************************************************************************)
\* Isometry3::new(translation, axisangle) with the zero axis-angle.
Isometry3_new(translation) == [rotation |-> Identity3, translation |-> translation]

\* Isometry3 * Isometry3.
IsoMul(a, b) ==
    [ rotation    |-> MatMul(a.rotation, b.rotation),
      translation |-> VecAdd(MatVec(a.rotation, b.translation), a.translation) ]

\* Rotation3::face_towards(dir, up): the columns are the x, y and z axes.
face_towards(dir, up) ==
    LET zaxis == Normalize(dir)
        xaxis == Normalize(Cross(up, zaxis))
        yaxis == Normalize(Cross(zaxis, xaxis))
    IN  Transpose(<<xaxis, yaxis, zaxis>>)

\* Isometry3::look_at_rh(eye, target, up).
look_at_rh(eye, target, up) ==
    LET rotation == Transpose(face_towards(VecNeg(VecSub(target, eye)), up))
    IN  [rotation |-> rotation, translation |-> MatVec(rotation, VecNeg(eye))]

\* Isometry3::to_homogeneous().
to_homogeneous(iso) ==
    [r \in 1..4 |->
        IF r = 4 THEN <<I(0), I(0), I(0), I(1)>>
        ELSE <<iso.rotation[r][1], iso.rotation[r][2], iso.rotation[r][3],
               iso.translation[r]>>]

\* Orthographic3::new(left, right, bottom, top, znear, zfar).as_matrix().
Orthographic3_new(left, right, bottom, top, znear, zfar) ==
    << << RDiv(I(2), RSub(right, left)), I(0), I(0),
          RNeg(RDiv(RAdd(right, left), RSub(right, left))) >>,
       << I(0), RDiv(I(2), RSub(top, bottom)), I(0),
          RNeg(RDiv(RAdd(top, bottom), RSub(top, bottom))) >>,
       << I(0), I(0), RNeg(RDiv(I(2), RSub(zfar, znear))),
          RNeg(RDiv(RAdd(zfar, znear), RSub(zfar, znear))) >>,
       << I(0), I(0), I(0), I(1) >> >>

(***************************************************************************)
(* start(): the values computed before the frame closure is built.         *)
(***************************************************************************)
\* Scale with the thresholds taken inclusively.
ScaleInclusive(width, height) ==
    LET resolution == width * height
    IN  IF resolution >= 1800000 THEN 4
        ELSE IF resolution >= 300000 THEN 3
        ELSE 2

\* let scale = if resolution > 1800000.0 {4} else if resolution > 300000.0 {3} else {2}
Scale(width, height) ==
    LET resolution == width * height
    IN  IF resolution > 1800000 THEN 4
        ELSE IF resolution > 300000 THEN 3
        ELSE 2

\* let camera = projection.as_matrix() * (view * model).to_homogeneous()
Camera ==
    LET model == Isometry3_new(x_axis)
        projection == Orthographic3_new(I(0), Rat(1, 4), I(0), Rat(1, 4), I(1), I(100))
        eye == <<I(0), I(0), I(30)>>
        target == <<I(0), I(0), I(0)>>
        view == look_at_rh(eye, target, y_axis)
    IN  MatMul(projection, to_homogeneous(IsoMul(view, model)))

\* The three SetConfig literals of start(), in the order of the vec!.
SetConfigs(scale) ==
    << [ l |-> I(1), v |-> 1 * scale, u |-> 2 * scale, diameter |-> I(20),
         radius |-> I(4), ro |-> <<I(-2), I(-1), I(3)>>,
         period |-> Rat(4, 1000), amplitude |-> I(100), speed |-> I(1),
         spread |-> <<I(0), I(50)>> ],
       [ l |-> I(2), v |-> 2 * scale, u |-> 4 * scale, diameter |-> I(40),
         radius |-> I(3), ro |-> <<I(-1), I(1), I(2)>>,
         period |-> Rat(1, 1000), amplitude |-> I(200), speed |-> I(1),
         spread |-> <<I(0), I(150)>> ],
       [ l |-> I(3), v |-> 4 * scale, u |-> 8 * scale, diameter |-> I(60),
         radius |-> I(2), ro |-> <<I(-1), I(3), I(1)>>,
         period |-> Rat(6, 1000), amplitude |-> I(150), speed |-> I(1),
         spread |-> <<I(0), I(300)>> ] >>

IsExactPoint(p) == p # Inexact

\* procedural::sphere(diameter, ntheta_subdiv, nphi_subdiv, false).coords:
\* the bottom pole, then 2 * nphi - 1 rings of ntheta vertices each, then the
\* top pole, on the sphere of that diameter.  Ring j lies at latitude
\* -1 + j / nphi quarter turns and its vertex k at longitude 4 * k / ntheta
\* quarter turns.  The mesh of the model keeps, in the generator's order, the
\* vertices whose coordinates are rational (both angles whole quarter
\* turns): the poles and the axis points of the equator.
sphere(diameter, ntheta, nphi) ==
    LET radius == RMul(Rat(1, 2), diameter)
        n == (2 * nphi - 1) * ntheta
        vertex(m) ==
            LET phi == RAdd(I(-1), Rat((m \div ntheta) + 1, nphi))
                theta == Rat(4 * (m % ntheta), ntheta)
            IN  IF AngleExact(phi) /\ AngleExact(theta)
                THEN VecScale(radius, << RMul(Cos(theta), Cos(phi)), Sin(phi),
                                         RMul(Sin(theta), Cos(phi)) >>)
                ELSE Inexact
        rings == [m \in 1..n |-> vertex(m - 1)]
    IN  <<VecScale(radius, <<I(0), I(-1), I(0)>>)>>
        \o SelectSeq(rings, IsExactPoint)
        \o <<VecScale(radius, <<I(0), I(1), I(0)>>)>>

\* DotSet::new(config).
DotSet_new(config) ==
    [ mesh     |-> sphere(config.diameter, config.u, config.v),
      radius   |-> config.radius,
      rotation |-> config.ro ]

\* let sets: Vec<DotSet> = vec![...].iter().map(|config| DotSet::new(config)).collect()
Sets(scale) == [k \in 1..Len(SetConfigs(scale)) |-> DotSet_new(SetConfigs(scale)[k])]

\* let translation = Vector3::new(width / 2.0, height / 2.0, 0.0)
Translation(width, height) == <<Rat(width, 2), Rat(height, 2), I(0)>>

\* The step of "t += 0.002".
TimeStep == Rat(2, 1000)

(***************************************************************************)
(* The frame closure's computations.                                       *)
(***************************************************************************)
\* Rotation with the factors composed in the order Z, Y, X.
RotationZYX(time, weights) ==
    LET rotation_x == from_axis_angle(x_axis, RMul(RMul(FRAC_PI_2, time), weights[1]))
        rotation_y == from_axis_angle(y_axis, RMul(RMul(FRAC_PI_2, time), weights[2]))
        rotation_z == from_axis_angle(z_axis, RMul(RMul(FRAC_PI_2, time), weights[3]))
    IN  RotMul(RotMul(rotation_z, rotation_y), rotation_x)

\* Rotation with the time left out of the angles.
RotationNoTime(time, weights) ==
    LET rotation_x == from_axis_angle(x_axis, RMul(FRAC_PI_2, weights[1]))
        rotation_y == from_axis_angle(y_axis, RMul(FRAC_PI_2, weights[2]))
        rotation_z == from_axis_angle(z_axis, RMul(FRAC_PI_2, weights[3]))
    IN  RotMul(RotMul(rotation_x, rotation_y), rotation_z)

\* let rotation = rotation_x * rotation_y * rotation_z, each factor being
\* Rotation3::from_axis_angle(axis, FRAC_PI_2 * t * set.rotation[k]).
Rotation(time, weights) ==
    LET rotation_x == from_axis_angle(x_axis, RMul(RMul(FRAC_PI_2, time), weights[1]))
        rotation_y == from_axis_angle(y_axis, RMul(RMul(FRAC_PI_2, time), weights[2]))
        rotation_z == from_axis_angle(z_axis, RMul(RMul(FRAC_PI_2, time), weights[3]))
    IN  RotMul(RotMul(rotation_x, rotation_y), rotation_z)

\* Project with the translation added before the camera transform.
ProjectTranslateFirst(cam, trans, rot, point) ==
    transform_point(cam, PointAdd(RotPoint(rot, point), trans))

\* let point1 = camera.transform_point(&(rotation * point)) + translation
Project(cam, trans, rot, point) ==
    PointAdd(transform_point(cam, RotPoint(rot, point)), trans)

\* draw_dot(context, &point1, radius): an arc and a radial gradient centred
\* at (point.x, point.y), of the given radius.
draw_dot(point, radius) ==
    Only({ IF x = Inexact THEN [pos |-> Inexact, radius |-> radius]
           ELSE [pos |-> <<x[1], x[2]>>, radius |-> radius] : x \in {point} })

(***************************************************************************)
(* State.                                                                  *)
(***************************************************************************)
VARIABLES
    startPc,      \* the statement of start() about to run, "done" or "aborted"
    loop,         \* "NotStarted", "Running" or "Aborted" (a panic)
    width,        \* start()'s width, 0 until read
    height,       \* start()'s height, 0 until read
    scale,        \* start()'s scale, 0 until computed
    camera,       \* the closure's captured camera matrix
    translation,  \* the closure's captured translation
    sets,         \* the closure's captured Vec<DotSet>
    t,            \* the closure's captured time
    pending,      \* host: callbacks registered and not yet invoked
    active,       \* invocations of the closure that have not returned
    tickPc,       \* the closure's position: "idle" when it is not running
    set_i,        \* index of "for set in &sets"
    point_i,      \* index of "for point in &dotset.mesh.coords"
    rotation,     \* the closure's local rotation
    events,       \* what the current invocation has done so far, in order
    ticks,        \* invocations that have returned
    regs,         \* calls of request_animation_frame that succeeded
    touched,      \* the canvas has been cleared or drawn on
    fn,           \* function applied by the function-level specification
    arg,          \* its input
    res           \* its result

progVars ==
    <<startPc, loop, width, height, scale, camera, translation, sets, t, pending,
      active, tickPc, set_i, point_i, rotation, events, ticks, regs, touched>>
fnVars == <<fn, arg, res>>
vars == <<startPc, loop, width, height, scale, camera, translation, sets, t, pending,
          active, tickPc, set_i, point_i, rotation, events, ticks, regs, touched,
          fn, arg, res>>

None == <<"none">>

\* Viewport sizes the host reports to start().  Their areas lie below, at
\* and above both thresholds of the tier (500 * 600 and 1500 * 1200 lie at).
ViewWidths == {500, 1500}
ViewHeights == {500, 600, 1200, 1600}

ProgInit ==
    /\ startPc = "window"
    /\ loop = "NotStarted"
    /\ width = 0
    /\ height = 0
    /\ scale = 0
    /\ camera = None
    /\ translation = None
    /\ sets = <<>>
    /\ t = None
    /\ pending = 0
    /\ active = 0
    /\ tickPc = "idle"
    /\ set_i = 0
    /\ point_i = 0
    /\ rotation = None
    /\ events = <<>>
    /\ ticks = 0
    /\ regs = 0
    /\ touched = FALSE

Init ==
    /\ ProgInit
    /\ fn = "off"
    /\ arg = None
    /\ res = None

(***************************************************************************)
(* start(): the acquisition steps.  Each unwrap() either yields the value  *)
(* or panics, which ends start().                                          *)
(***************************************************************************)
\* A panic: the wasm instance traps and nothing of the program runs after it.
Panic == loop' = "Aborted"

\* Unwrap with the failure swallowed: start() goes on to the next statement.
UnwrapContinue(at, next) ==
    /\ startPc = at
    /\ startPc' = next
    /\ \/ loop' = loop
       \/ Panic
    /\ UNCHANGED <<width, height, scale, camera, translation, sets, t, pending, active,
                   tickPc, set_i, point_i, rotation, events, ticks, regs, touched>>
    /\ UNCHANGED fnVars

\* One unwrap() of start() at position `at`, followed by position `next`.
Unwrap(at, next) ==
    /\ startPc = at
    /\ \/ /\ startPc' = next
          /\ loop' = loop
       \/ /\ Panic
          /\ startPc' = "aborted"
    /\ UNCHANGED <<width, height, scale, camera, translation, sets, t, pending, active,
                   tickPc, set_i, point_i, rotation, events, ticks, regs, touched>>
    /\ UNCHANGED fnVars

\* let window = web_sys::window().unwrap()
AcquireWindow == Unwrap("window", "document")

\* let document = window.document().unwrap()
AcquireDocument == Unwrap("document", "canvas")

\* let canvas = document.get_element_by_id("canvas").unwrap()
AcquireCanvas == Unwrap("canvas", "canvas_cast")

\* canvas.dyn_into::<HtmlCanvasElement>().map_err(|_| ()).unwrap()
CastCanvas == Unwrap("canvas_cast", "context")

\* canvas.get_context("2d").unwrap().unwrap()
AcquireContext == Unwrap("context", "context_cast")

\* .dyn_into::<CanvasRenderingContext2d>().unwrap()
CastContext == Unwrap("context_cast", "width")

\* let width = window.inner_width().unwrap().as_f64().unwrap()
ReadWidth ==
    /\ startPc = "width"
    /\ \/ /\ \E w \in ViewWidths : width' = w
          /\ startPc' = "height"
          /\ loop' = loop
       \/ /\ Panic
          /\ startPc' = "aborted"
          /\ width' = width
    /\ UNCHANGED <<height, scale, camera, translation, sets, t, pending, active,
                   tickPc, set_i, point_i, rotation, events, ticks, regs, touched>>
    /\ UNCHANGED fnVars

\* let height = window.inner_height().unwrap().as_f64().unwrap()
ReadHeight ==
    /\ startPc = "height"
    /\ \/ /\ \E h \in ViewHeights : height' = h
          /\ startPc' = "setup"
          /\ loop' = loop
       \/ /\ Panic
          /\ startPc' = "aborted"
          /\ height' = height
    /\ UNCHANGED <<width, scale, camera, translation, sets, t, pending, active,
                   tickPc, set_i, point_i, rotation, events, ticks, regs, touched>>
    /\ UNCHANGED fnVars

\* From "let resolution" to the construction of the closure: scale, camera,
\* sets, t = 0.0 and translation.
Setup ==
    /\ startPc = "setup"
    /\ scale' = Scale(width, height)
    /\ camera' = Camera
    /\ sets' = Sets(Scale(width, height))
    /\ t' = I(0)
    /\ translation' = Translation(width, height)
    /\ startPc' = "register"
    /\ UNCHANGED <<loop, width, height, pending, active, tickPc, set_i, point_i,
                   rotation, events, ticks, regs, touched>>
    /\ UNCHANGED fnVars

(***************************************************************************)
(* request_animation_frame(f): window().unwrap(), then                     *)
(* .request_animation_frame(..).expect(..).  It registers f with the host  *)
(* or panics.                                                              *)
(***************************************************************************)
\* request_animation_frame returning without registering the callback.
request_animation_frame_dropped ==
    /\ pending' = pending
    /\ regs' = regs + 1

\* request_animation_frame registering the callback twice.
request_animation_frame_twice ==
    /\ pending' = pending + 2
    /\ regs' = regs + 2

\* The effect on the host of a successful call.
request_animation_frame ==
    /\ pending' = pending + 1
    /\ regs' = regs + 1

\* request_animation_frame(g.borrow().as_ref().unwrap()), the last statement
\* of start().
FirstRegistration ==
    /\ startPc = "register"
    /\ \/ /\ request_animation_frame
          /\ startPc' = "done"
          /\ loop' = "Running"
       \/ /\ Panic
          /\ startPc' = "aborted"
          /\ UNCHANGED <<pending, regs>>
    /\ UNCHANGED <<width, height, scale, camera, translation, sets, t, active,
                   tickPc, set_i, point_i, rotation, events, ticks, touched>>
    /\ UNCHANGED fnVars

(***************************************************************************)
(* The host and the frame closure.                                         *)
(***************************************************************************)
Event(kind, s, p, rec) ==
    [kind |-> kind, set |-> s, point |-> p, time |-> t, pos |-> rec.pos,
     radius |-> rec.radius]

NoDot == [pos |-> None, radius |-> None]

\* The host takes one registered callback and invokes it.
InvokeCallback ==
    /\ pending > 0
    /\ ticks < MaxTicks
    /\ pending' = pending - 1
    /\ active' = active + 1
    /\ tickPc' = "clear"
    /\ events' = <<>>
    /\ UNCHANGED <<startPc, loop, width, height, scale, camera, translation, sets, t,
                   set_i, point_i, rotation, ticks, regs, touched>>
    /\ UNCHANGED fnVars

\* AfterSet leaving the loop over the sets after the first set.
AfterSetBreak(s) == IF s < 1 THEN "rotate" ELSE "advance"

\* Where the closure goes after set s: the next set, or "t += 0.002".
AfterSet(s) == IF s < Len(sets) THEN "rotate" ELSE "advance"

\* context.clear_rect(0.0, 0.0, width, height), then the head of
\* "for set in &sets".
Clear ==
    /\ tickPc = "clear"
    /\ events' = Append(events, Event("clear", 0, 0, [pos |-> <<I(0), I(0)>>,
                                                       radius |-> <<width, height>>]))
    /\ touched' = TRUE
    /\ set_i' = 1
    /\ tickPc' = AfterSet(0)
    /\ UNCHANGED <<startPc, loop, width, height, scale, camera, translation, sets, t,
                   pending, active, point_i, rotation, ticks, regs>>
    /\ UNCHANGED fnVars

\* Rotate with "t += 0.002" inside the loop over the sets.
RotateAdvancing ==
    /\ tickPc = "rotate"
    /\ rotation' = Rotation(t, sets[set_i].rotation)
    /\ t' = RAdd(t, TimeStep)
    /\ events' = Append(events, Event("rotate", set_i, 0, NoDot))
    /\ point_i' = IF Len(sets[set_i].mesh) > 0 THEN 1 ELSE 0
    /\ tickPc' = IF Len(sets[set_i].mesh) > 0 THEN "draw" ELSE AfterSet(set_i)
    /\ set_i' = IF Len(sets[set_i].mesh) > 0 THEN set_i ELSE set_i + 1
    /\ UNCHANGED <<startPc, loop, width, height, scale, camera, translation, sets,
                   pending, active, ticks, regs, touched>>
    /\ UNCHANGED fnVars

\* The body of "for set in &sets" down to the call of draw_dotset, and the
\* head of draw_dotset's "for point in &dotset.mesh.coords".
Rotate ==
    /\ tickPc = "rotate"
    /\ rotation' = Rotation(t, sets[set_i].rotation)
    /\ events' = Append(events, Event("rotate", set_i, 0, NoDot))
    /\ point_i' = IF Len(sets[set_i].mesh) > 0 THEN 1 ELSE 0
    /\ tickPc' = IF Len(sets[set_i].mesh) > 0 THEN "draw" ELSE AfterSet(set_i)
    /\ set_i' = IF Len(sets[set_i].mesh) > 0 THEN set_i ELSE set_i + 1
    /\ UNCHANGED <<startPc, loop, width, height, scale, camera, translation, sets, t,
                   pending, active, ticks, regs, touched>>
    /\ UNCHANGED fnVars

\* DrawDot rotating the point of the mesh in place.
DrawDotInPlace ==
    /\ tickPc = "draw"
    /\ LET dotset == sets[set_i]
           point1 == Project(camera, translation, rotation, dotset.mesh[point_i])
       IN  events' = Append(events,
                            Event("draw", set_i, point_i, draw_dot(point1, dotset.radius)))
    /\ sets' = [sets EXCEPT ![set_i].mesh[point_i] = RotPoint(rotation, @)]
    /\ touched' = TRUE
    /\ point_i' = IF point_i < Len(sets[set_i].mesh) THEN point_i + 1 ELSE 0
    /\ set_i' = IF point_i < Len(sets[set_i].mesh) THEN set_i ELSE set_i + 1
    /\ tickPc' = IF point_i < Len(sets[set_i].mesh) THEN "draw" ELSE AfterSet(set_i)
    /\ UNCHANGED <<startPc, loop, width, height, scale, camera, translation, t,
                   pending, active, rotation, ticks, regs>>
    /\ UNCHANGED fnVars

\* One iteration of draw_dotset's loop: project the point, draw the dot.
DrawDot ==
    /\ tickPc = "draw"
    /\ LET dotset == sets[set_i]
           point1 == Project(camera, translation, rotation, dotset.mesh[point_i])
       IN  events' = Append(events,
                            Event("draw", set_i, point_i, draw_dot(point1, dotset.radius)))
    /\ touched' = TRUE
    /\ point_i' = IF point_i < Len(sets[set_i].mesh) THEN point_i + 1 ELSE 0
    /\ set_i' = IF point_i < Len(sets[set_i].mesh) THEN set_i ELSE set_i + 1
    /\ tickPc' = IF point_i < Len(sets[set_i].mesh) THEN "draw" ELSE AfterSet(set_i)
    /\ UNCHANGED <<startPc, loop, width, height, scale, camera, translation, sets, t,
                   pending, active, rotation, ticks, regs>>
    /\ UNCHANGED fnVars

\* t += 0.002
AdvanceTime ==
    /\ tickPc = "advance"
    /\ t' = RAdd(t, TimeStep)
    /\ events' = Append(events, Event("advance", 0, 0, NoDot))
    /\ tickPc' = "register"
    /\ UNCHANGED <<startPc, loop, width, height, scale, camera, translation, sets,
                   pending, active, set_i, point_i, rotation, ticks, regs, touched>>
    /\ UNCHANGED fnVars

\* request_animation_frame(render.borrow().as_ref().unwrap()), after which the
\* closure returns; a panic ends the invocation without a registration.
Reregister ==
    /\ tickPc = "register"
    /\ \/ /\ request_animation_frame
          /\ events' = Append(events, Event("register", 0, 0, NoDot))
          /\ ticks' = ticks + 1
          /\ UNCHANGED <<startPc, loop>>
       \/ /\ Panic
          /\ UNCHANGED <<startPc, pending, regs, events, ticks>>
    /\ tickPc' = "idle"
    /\ active' = active - 1
    /\ UNCHANGED <<width, height, scale, camera, translation, sets, t, set_i, point_i,
                   rotation, touched>>
    /\ UNCHANGED fnVars

Start ==
    \/ AcquireWindow
    \/ AcquireDocument
    \/ AcquireCanvas
    \/ CastCanvas
    \/ AcquireContext
    \/ CastContext
    \/ ReadWidth
    \/ ReadHeight
    \/ Setup
    \/ FirstRegistration

Tick ==
    \/ Clear
    \/ Rotate
    \/ DrawDot
    \/ AdvanceTime
    \/ Reregister

Next ==
    \/ Start
    \/ InvokeCallback
    \/ Tick

Spec == Init /\ [][Next]_vars

\* The same program followed for MaxFairTicks invocations, under fairness: the
\* host invokes every registered callback, and a running closure runs on.
FairInvoke == InvokeCallback /\ ticks < MaxFairTicks

FairNext ==
    \/ Start
    \/ FairInvoke
    \/ Tick

FairSpec == Init /\ [][FairNext]_vars /\ WF_vars(FairInvoke) /\ WF_vars(Tick)

(***************************************************************************)
(* Function-level specification: the pure computations of start() and of   *)
(* the frame closure, applied to inputs drawn from bounded sets.           *)
(***************************************************************************)
\* Viewport sizes on a grid of hundreds.
Grid == {100 * k : k \in 0..MaxGrid}

\* Times in half units and rotation weights.
Times == {Rat(k, 2) : k \in 0..(2 * MaxT)}
Weights == {I(k) : k \in (-MaxWeight)..MaxWeight}

\* Points, rotations, camera matrices and translations for the projection.
Coords == {I(-1), I(0), I(1)}
Points == {<<a, b, c>> : a \in Coords, b \in Coords, c \in Coords}
QuarterTurns == {I(0), I(1)}
Rotations == {Rotation(I(1), <<a, b, c>>) : a \in QuarterTurns, b \in QuarterTurns,
                                            c \in QuarterTurns}
\* A matrix with a projective last row: its normalizer is z + 1, which is
\* zero at z = -1.
Projective ==
    << <<I(2), I(0), I(1), I(0)>>, <<I(0), I(3), I(0), I(1)>>,
       <<I(0), I(0), I(1), I(0)>>, <<I(0), I(0), I(1), I(1)>> >>
Cameras == {Identity4, Camera, Projective}
Translations == {<<I(5), I(5), I(0)>>, <<I(0), I(0), I(0)>>, <<Rat(3, 2), I(-2), I(7)>>}

FnInit ==
    /\ ProgInit
    /\ fn = "input"
    /\ res = None
    /\ \/ \E w \in Grid, h \in Grid : arg = [f |-> "scale", width |-> w, height |-> h]
       \/ \E time \in Times, wx \in Weights, wy \in Weights, wz \in Weights :
              arg = [f |-> "rotation", time |-> time, weights |-> <<wx, wy, wz>>]
       \/ \E p \in Points, r \in Rotations, c \in Cameras, tr \in Translations :
              arg = [f |-> "project", point |-> p, rotation |-> r, camera |-> c,
                     translation |-> tr]

\* start()'s choice of scale.
ApplyScale ==
    /\ fn = "input"
    /\ arg.f = "scale"
    /\ res' = Scale(arg.width, arg.height)
    /\ fn' = "scale"
    /\ UNCHANGED arg
    /\ UNCHANGED progVars

\* The closure's rotation for one set.
ApplyRotation ==
    /\ fn = "input"
    /\ arg.f = "rotation"
    /\ res' = Rotation(arg.time, arg.weights)
    /\ fn' = "rotation"
    /\ UNCHANGED arg
    /\ UNCHANGED progVars

\* The body of draw_dotset's loop for one point, with radius 1.
ApplyProject ==
    /\ fn = "input"
    /\ arg.f = "project"
    /\ LET point1 == Project(arg.camera, arg.translation, arg.rotation, arg.point)
       IN  res' = [point1 |-> point1, dot |-> draw_dot(point1, I(1))]
    /\ fn' = "project"
    /\ UNCHANGED arg
    /\ UNCHANGED progVars

FnNext ==
    \/ ApplyScale
    \/ ApplyRotation
    \/ ApplyProject

FnSpec == FnInit /\ [][FnNext]_vars

(***************************************************************************)
(* Properties.                                                             *)
(***************************************************************************)

\* C1.  The tier start() picks for a viewport of area = width * height is 4
\* exactly when area > 1,800,000, 3 exactly when 300,000 < area <= 1,800,000
\* and 2 exactly when area <= 300,000; it is always one of 2, 3, 4; 500 x 500
\* gives 2, 1000 x 1000 gives 3 and 1200 x 1600 gives 4.
TierSelection ==
    (fn = "scale") =>
        LET area == arg.width * arg.height
        IN  /\ res \in {2, 3, 4}
            /\ (res = 4) <=> (area > 1800000)
            /\ (res = 3) <=> (area > 300000 /\ ~(area > 1800000))
            /\ (res = 2) <=> ~(area > 300000)
            /\ (area = 1800000) => (res = 3)
            /\ (area = 300000) => (res = 2)
            /\ (arg.width = 500 /\ arg.height = 500) => (res = 2)
            /\ (arg.width = 1000 /\ arg.height = 1000) => (res = 3)
            /\ (arg.width = 1200 /\ arg.height = 1600) => (res = 4)

\* A viewport whose area is exactly the upper threshold got tier 3.
TierSelectionWitness ==
    /\ fn = "scale"
    /\ arg.width * arg.height = 1800000
    /\ res = 3

\* Event k of the current invocation is the drawing of point p of set s.
IsDraw(k, s, p) ==
    /\ events[k].kind = "draw"
    /\ events[k].set = s
    /\ events[k].point = p

\* Event k of the current invocation ends the processing of set s.
EndsSet(k, s) ==
    IF Len(sets[s].mesh) = 0
    THEN events[k].kind = "rotate" /\ events[k].set = s
    ELSE IsDraw(k, s, Len(sets[s].mesh))

\* Event k stands where the closure's code puts an event of its kind.  The
\* position of a dot is compared when the dot has just been drawn and again
\* when all dots of the invocation have been drawn.
EventInPlace(k) ==
    LET e == events[k]
    IN  IF k = 1 THEN e.kind = "clear" /\ e.radius = <<width, height>>
        ELSE /\ e.kind # "clear"
             /\ e.kind = "rotate" =>
                    /\ e.set \in 1..Len(sets)
                    /\ e.time = events[1].time
                    /\ IF e.set = 1 THEN events[k - 1].kind = "clear"
                       ELSE EndsSet(k - 1, e.set - 1)
             /\ e.kind = "draw" =>
                    /\ e.set \in 1..Len(sets)
                    /\ e.point \in 1..Len(sets[e.set].mesh)
                    /\ e.time = events[1].time
                    /\ e.radius = sets[e.set].radius
                    /\ (k = Len(events) \/ tickPc = "advance") =>
                           e.pos = draw_dot(Project(camera, translation,
                                                    Rotation(e.time, sets[e.set].rotation),
                                                    sets[e.set].mesh[e.point]),
                                            e.radius).pos
                    /\ IF e.point = 1
                       THEN events[k - 1].kind = "rotate" /\ events[k - 1].set = e.set
                       ELSE IsDraw(k - 1, e.set, e.point - 1)
             /\ e.kind = "advance" =>
                    /\ e.time = events[1].time
                    /\ IF Len(sets) = 0 THEN k = 2 ELSE EndsSet(k - 1, Len(sets))
             /\ e.kind = "register" =>
                    /\ events[k - 1].kind = "advance"
                    /\ k = Len(events)

\* C2.  Within every invocation of the frame closure the canvas is cleared
\* first; then the sets are processed in the order of the vector, each set's
\* rotation being computed from the current time before its points are
\* drawn, every point of its mesh being drawn exactly once, in order, with
\* the set's radius and at the position that rotation projects it to; time
\* is advanced only after the last point of the last set; and the closure is
\* registered again only after that, as the last thing it does.
TickOrder ==
    /\ \A k \in 1..Len(events) : EventInPlace(k)
    /\ (active > 0) => ((tickPc = "clear") <=> (events = <<>>))
    /\ (events # <<>>) =>
           /\ t = IF \E k \in 1..Len(events) : events[k].kind = "advance"
                  THEN RAdd(events[1].time, <<1, 500>>)
                  ELSE events[1].time
           /\ (pending > 0) => (events[Len(events)].kind = "register")
           /\ (tickPc = "idle" /\ loop = "Running") =>
                  (events[Len(events)].kind = "register")

\* A second or later invocation has returned after drawing all three sets at
\* whole quarter turns.
TickOrderWitness ==
    /\ ticks = 501
    /\ tickPc = "idle"
    /\ loop = "Running"
    /\ Len(events) = 3 + Len(sets[1].mesh) + Len(sets[2].mesh) + Len(sets[3].mesh) + 3
    /\ \A k \in 1..Len(events) : events[k].kind = "draw" => events[k].pos # Inexact

\* The number of "t += 0.002" executed so far.
Advances ==
    ticks + (IF events # <<>> /\ events[Len(events)].kind = "advance" THEN 1 ELSE 0)

RLeq(a, b) == a[1] * b[2] <= b[1] * a[2]

\* C3.  Time is 0 when the closure is built and is n x 0.002 after n
\* executions of the closure's time step, one per invocation; only that step
\* changes it, it never decreases, and all sets processed within one
\* invocation see the same time.
TimeState ==
    /\ (startPc \in {"register", "done"}) => (t # None)
    /\ (t # None) => (t = Rat(2 * Advances, 1000))
    /\ (startPc = "register") => (t = I(0))
    /\ (scale = 0) <=> (t = None)
    /\ \A k \in 1..Len(events) :
           (events[k].kind \in {"rotate", "draw"}) => (events[k].time = events[1].time)
    /\ (tickPc # "idle") => (Advances = ticks + (IF tickPc = "register" THEN 1 ELSE 0))

TimeStep_only ==
    (t # None) =>
        /\ RLeq(t, t')
        /\ (t' # t) => (tickPc = "advance" /\ tickPc' = "register")

TimeAdvance == []TimeState /\ [][TimeStep_only]_vars

\* Three invocations have returned and the time is 0.006.
TimeAdvanceWitness ==
    /\ ticks = 3
    /\ tickPc = "idle"
    /\ t = Rat(6, 1000)

\* C4.  start() registers the closure once and every invocation registers it
\* once more as its last step: at most one registration is outstanding, and
\* while one is outstanding no invocation is executing; at most one
\* invocation executes at any time, and an invocation begins only when none
\* is executing.
SingleRegistration ==
    /\ pending \in {0, 1}
    /\ active \in {0, 1}
    /\ (pending = 1) => (active = 0 /\ tickPc = "idle" /\ startPc = "done")
    /\ (active = 1) <=> (tickPc # "idle")
    /\ (startPc \notin {"done"}) => (regs = 0 /\ active = 0)
    /\ (startPc = "done") => (regs = ticks + 1)
    /\ (loop = "Running") => (pending + active = 1)

InvocationsDisjoint ==
    (active' > active) => (active = 0 /\ pending = 1 /\ pending' = 0)

FrameScheduling == []SingleRegistration /\ [][InvocationsDisjoint]_vars

\* The second invocation is executing while nothing is registered.
FrameSchedulingWitness ==
    /\ ticks = 1
    /\ regs = 2
    /\ active = 1
    /\ pending = 0
    /\ tickPc = "draw"

\* The loop is running with work left, so the host or the closure can step.
LoopState ==
    /\ loop \in {"NotStarted", "Running", "Aborted"}
    /\ (loop = "Running") <=> (startPc = "done" /\ pending + active = 1)
    /\ (loop = "Running" /\ ticks < MaxFairTicks) => ENABLED (FairInvoke \/ Tick)

\* The only way out of Running is a panic of the closure's registration.
NoStop ==
    (loop = "Running") =>
        \/ loop' = "Running"
        \/ tickPc = "register" /\ loop' = "Aborted" /\ regs' = regs /\ pending' = 0

\* C5.  Once start() has succeeded the loop is Running and stays Running: no
\* step stops, pauses or tears it down, the one exception being the panic of
\* a registration that fails; and if the host invokes every registered
\* callback, then unless a registration fails the invocations go on for as
\* long as the model follows them (MaxFairTicks invocations).
LoopRunsOn ==
    /\ []LoopState
    /\ [][NoStop]_vars
    /\ (loop = "Running") ~> (ticks = MaxFairTicks \/ loop = "Aborted")

\* The loop is still running after the last invocation the model follows.
LoopRunsOnWitness ==
    /\ loop = "Running"
    /\ ticks = MaxFairTicks
    /\ pending = 1

\* Nothing of the frame loop has happened.
NothingRan ==
    /\ regs = 0
    /\ pending = 0
    /\ active = 0
    /\ ticks = 0
    /\ tickPc = "idle"
    /\ events = <<>>
    /\ ~touched

\* C6.  A panic of start() (window, document, canvas lookup, canvas cast,
\* context, context cast, width, height, or the first registration) ends
\* start() at that statement: nothing later in start() has run, no callback
\* is registered, the canvas has not been cleared or drawn on, no invocation
\* has run, and no step is possible afterwards (no retry).
StartupAbort ==
    /\ (loop = "Aborted" /\ regs = 0) => (startPc = "aborted")
    /\ (startPc = "aborted") =>
           /\ loop = "Aborted"
           /\ NothingRan
           /\ ~ENABLED Next
           /\ (width = 0) => (height = 0)
           /\ (height = 0) => (scale = 0 /\ camera = None /\ sets = <<>> /\ t = None)
    /\ (startPc \notin {"done"}) => NothingRan

\* start() panicked reading the height, after it had read the width.
StartupAbortWitness ==
    /\ startPc = "aborted"
    /\ width # 0
    /\ height = 0

\* Cosine and sine of n quarter turns, as integers.
QuarterCos(n) == CASE n % 4 = 0 -> 1 [] n % 4 = 2 -> -1 [] OTHER -> 0
QuarterSin(n) == CASE n % 4 = 1 -> 1 [] n % 4 = 3 -> -1 [] OTHER -> 0

\* The elementary rotations by n quarter turns, as integer matrices.
ElementaryX(n) ==
    << <<1, 0, 0>>, <<0, QuarterCos(n), -QuarterSin(n)>>,
       <<0, QuarterSin(n), QuarterCos(n)>> >>
ElementaryY(n) ==
    << <<QuarterCos(n), 0, QuarterSin(n)>>, <<0, 1, 0>>,
       <<-QuarterSin(n), 0, QuarterCos(n)>> >>
ElementaryZ(n) ==
    << <<QuarterCos(n), -QuarterSin(n), 0>>, <<QuarterSin(n), QuarterCos(n), 0>>,
       <<0, 0, 1>> >>

\* The product of two 3 x 3 integer matrices.
IntProduct(a, b) ==
    [r \in 1..3 |-> [c \in 1..3 |-> a[r][1] * b[1][c] + a[r][2] * b[2][c] + a[r][3] * b[3][c]]]

\* An integer matrix as a matrix of rationals.
AsRationals(m) == [r \in 1..3 |-> [c \in 1..3 |-> <<m[r][c], 1>>]]

\* C7.  For a time t and weights (wx, wy, wz) whose angles t * wx, t * wy and
\* t * wz are whole numbers of quarter turns, the closure's rotation is the
\* integer matrix X * Y * Z of the elementary rotations about X, Y and Z by
\* those angles, composed in that order; for weights (1, 0, 0) at t = 2 it is
\* the rotation about X by a half turn.
CompositionOrder ==
    (fn = "rotation") =>
        LET ax == RMul(arg.time, arg.weights[1])
            ay == RMul(arg.time, arg.weights[2])
            az == RMul(arg.time, arg.weights[3])
        IN  /\ (ax[2] = 1 /\ ay[2] = 1 /\ az[2] = 1) =>
                   res = AsRationals(IntProduct(IntProduct(ElementaryX(ax[1]),
                                                           ElementaryY(ay[1])),
                                                ElementaryZ(az[1])))
            /\ (arg.time = <<2, 1>> /\ arg.weights = << <<1, 1>>, <<0, 1>>, <<0, 1>> >>) =>
                   res = AsRationals(<< <<1, 0, 0>>, <<0, -1, 0>>, <<0, 0, -1>> >>)

\* The rotation was computed for quarter turns about X and Y, where the
\* order of the factors shows: X * Y differs from Y * X.
CompositionOrderWitness ==
    /\ fn = "rotation"
    /\ arg.time = <<1, 1>>
    /\ arg.weights = << <<1, 1>>, <<1, 1>>, <<0, 1>> >>
    /\ res = AsRationals(<< <<0, 0, 1>>, <<1, 0, 0>>, <<0, 1, 0>> >>)
    /\ res # AsRationals(IntProduct(ElementaryY(1), ElementaryX(1)))

\* row[1] * v[1] + row[2] * v[2] + row[3] * v[3] over the rationals.
Linear3(row, v) ==
    RAdd(RAdd(RMul(row[1], v[1]), RMul(row[2], v[2])), RMul(row[3], v[3]))

\* The position the point p is to be drawn at: the first two coordinates of
\* c applied to r applied to p, plus those of tr.
ExpectedPosition(c, r, p, tr) ==
    LET q == <<Linear3(r[1], p), Linear3(r[2], p), Linear3(r[3], p)>>
        n == RAdd(Linear3(c[4], q), c[4][4])
        x == RAdd(Linear3(c[1], q), c[1][4])
        y == RAdd(Linear3(c[2], q), c[2][4])
    IN  IF n[1] = 0 THEN <<RAdd(x, tr[1]), RAdd(y, tr[2])>>
        ELSE <<RAdd(RDiv(x, n), tr[1]), RAdd(RDiv(y, n), tr[2])>>

\* The matrix c with its depth row replaced.
WithDepthRow(c, row) == <<c[1], c[2], row, c[4]>>

\* C8.  The position draw_dotset draws a point p at, for a rotation R, a
\* camera matrix C and a translation T, is the first two coordinates of C
\* applied to R * p, plus the first two coordinates of T; the depth row of C
\* and the depth of T have no part in it.  With the identity rotation, the
\* identity camera and T = (5, 5), the points (1, 0, 0) and (0, 1, 0) are
\* drawn at (6, 5) and (5, 6).
Projection ==
    (fn = "project") =>
        /\ res.dot.pos = ExpectedPosition(arg.camera, arg.rotation, arg.point,
                                          arg.translation)
        /\ res.dot.pos = <<res.point1[1], res.point1[2]>>
        /\ res.dot.pos =
               draw_dot(Project(WithDepthRow(arg.camera, <<I(9), I(0), I(-4), I(1)>>),
                                <<arg.translation[1], arg.translation[2], I(99)>>,
                                arg.rotation, arg.point), I(1)).pos
        /\ (/\ arg.camera = Identity4
            /\ arg.rotation = Identity3
            /\ arg.translation = <<I(5), I(5), I(0)>>) =>
               /\ (arg.point = <<I(1), I(0), I(0)>>) => (res.dot.pos = <<I(6), I(5)>>)
               /\ (arg.point = <<I(0), I(1), I(0)>>) => (res.dot.pos = <<I(5), I(6)>>)

\* The point (1, 0, 0) was projected with the identity rotation, the identity
\* camera and the translation (5, 5), to (6, 5).
ProjectionWitness ==
    /\ fn = "project"
    /\ arg.camera = Identity4
    /\ arg.rotation = Identity3
    /\ arg.translation = <<I(5), I(5), I(0)>>
    /\ arg.point = <<I(1), I(0), I(0)>>
    /\ res.dot.pos = <<I(6), I(5)>>

\* C9.  At time 0 the closure's rotation is the identity whatever the
\* weights, and the first invocation after start(), which runs at time 0,
\* draws every point of every set where the identity rotation puts it: at
\* the camera transform of the mesh point plus the translation, which for
\* the camera of start() is (8 * x + 7 + width / 2, 8 * y - 1 + height / 2).
IdentityAtStart ==
    /\ (startPc = "register") =>
           /\ t = I(0)
           /\ \A wx \in Weights, wy \in Weights, wz \in Weights :
                  Rotation(t, <<wx, wy, wz>>) = Identity3
    /\ (ticks = 0 /\ tickPc = "draw") => (rotation = Identity3)
    /\ (ticks = 0) =>
           \A k \in 1..Len(events) :
               (events[k].kind = "draw") =>
                   LET e == events[k]
                       p == sets[e.set].mesh[e.point]
                   IN  /\ e.time = I(0)
                       /\ e.pos = draw_dot(Project(camera, translation, Identity3, p),
                                           e.radius).pos
                       /\ e.pos = << RAdd(RAdd(RMul(I(8), p[1]), I(7)), Rat(width, 2)),
                                     RAdd(RSub(RMul(I(8), p[2]), I(1)), Rat(height, 2)) >>

\* The first invocation has drawn the last point of the last set.
IdentityAtStartWitness ==
    /\ ticks = 0
    /\ tickPc = "advance"
    /\ t = I(0)
    /\ events[Len(events)].kind = "draw"
    /\ events[Len(events)].set = 3

\* Between invocations, what the closure captured is what start() computed.
AsComputedAtStartup ==
    (startPc = "done" /\ tickPc = "idle") =>
        /\ width \in ViewWidths
        /\ height \in ViewHeights
        /\ scale = Scale(width, height)
        /\ camera = Camera
        /\ translation = <<Rat(width, 2), Rat(height, 2), I(0)>>
        /\ Len(sets) = 3
        /\ \A k \in 1..3 :
               /\ sets[k].radius = SetConfigs(scale)[k].radius
               /\ sets[k].rotation = SetConfigs(scale)[k].ro
               /\ sets[k].mesh # <<>>
        /\ (ticks = MaxTicks) => (sets = Sets(scale))

\* What start() computed does not change once start() has returned.
CapturedUnchanged ==
    (startPc = "done") =>
        UNCHANGED <<width, height, scale, camera, translation, sets>>

\* C10.  After any number of invocations the camera matrix, the translation,
\* the width and height used for clearing, and the sets (their number and
\* order, and each set's mesh, radius and rotation weights) are the values
\* start() computed: of the state the closure captured, an invocation
\* changes only the time.
FrameCondition == []AsComputedAtStartup /\ [][CapturedUnchanged]_vars

\* All the invocations the model follows have returned and the time has moved.
FrameConditionWitness ==
    /\ startPc = "done"
    /\ tickPc = "idle"
    /\ ticks = MaxTicks
    /\ t # I(0)

=============================================================================
